---- MODULE Spec2Model ----
(***************************************************************************)
(* Heatmap decoding of the top-down HRNet keypoint detector                *)
(* (paddlex/ppdet/modeling/architectures/keypoint_hrnet.py).               *)
(*                                                                         *)
(* Arrays are functions on 0..n-1, as numpy indexes them.  Floating-point  *)
(* values are kept exactly as fixed-point integers: a coordinate c stands  *)
(* for c / CoordDen and a score s for s / ScoreDen.                        *)
(***************************************************************************)
EXTENDS Integers, Sequences, FiniteSets, TLC

----------------------------------------------------------------------------
(* Bounds of the explored inputs. *)
MaxB == 2
MaxJ == 2
MaxH == 4
MaxW == 5

(* Fixed-point denominators: coordinates move in steps of .25 (line 186),  *)
(* scores in steps of 0.5 (line 88).                                       *)
CoordDen == 4
ScoreDen == 2

----------------------------------------------------------------------------
(* numpy helpers *)

Size(a) == Cardinality(DOMAIN a)

Range(f) == {f[i] : i \in DOMAIN f}

\* np.sign
Sign(d) == IF d > 0 THEN 1 ELSE IF d < 0 THEN -1 ELSE 0

\* heatmaps.reshape((batch_size, num_joints, -1)) for one (n, p) slice:
\* row-major flattening of a height x width slice.
Reshaped(slice, width) ==
    [i \in 0..(Size(slice) * width - 1) |-> slice[i \div width][i % width]]

\* np.amax over the last axis
Amax(flat) == CHOOSE v \in Range(flat) : \A w \in Range(flat) : w <= v

\* Mutant of Argmax: the last index attaining the maximum
ArgmaxLast(flat) ==
    LET m == Amax(flat)
    IN  CHOOSE i \in DOMAIN flat :
            flat[i] = m /\ \A j \in DOMAIN flat : j > i => flat[j] # m

\* np.argmax over the last axis: the first index attaining the maximum
Argmax(flat) ==
    LET m == Amax(flat)
    IN  CHOOSE i \in DOMAIN flat :
            flat[i] = m /\ \A j \in 0..(i - 1) : flat[j] # m

----------------------------------------------------------------------------
(* HRNetPostProcess.get_max_preds, after its two assertions *)

\* Mutant of Mask: np.greater_equal in place of np.greater
MaskGreaterEqual(maxval) == IF maxval >= 0 THEN 1 ELSE 0

\* lines 150-151: np.greater(maxvals, 0.0) as a float
Mask(maxval) == IF maxval > 0 THEN 1 ELSE 0

\* preds[n][p] after lines 145-153, maxvals[n][p] after line 142
MaxPredsOfSlice(slice, width) ==
    LET flat    == Reshaped(slice, width)
        idx     == Argmax(flat)
        maxval  == Amax(flat)
        x       == (idx % width) * CoordDen
        y       == (idx \div width) * CoordDen
        mask    == Mask(maxval)
    IN  [pred |-> <<x * mask, y * mask>>, maxval |-> <<maxval>>]

MaxPreds(heatmaps) ==
    LET width == Size(heatmaps[0][0][0])
        each  == [n \in DOMAIN heatmaps |-> [p \in DOMAIN heatmaps[n] |->
                    MaxPredsOfSlice(heatmaps[n][p], width)]]
    IN  [preds   |-> [n \in DOMAIN each |-> [p \in DOMAIN each[n] |-> each[n][p].pred]],
         maxvals |-> [n \in DOMAIN each |-> [p \in DOMAIN each[n] |-> each[n][p].maxval]]]

----------------------------------------------------------------------------
(* HRNetPostProcess.get_final_preds, lines 173-187: the quarter offset *)

\* int(math.floor(c + 0.5)) of a fixed-point coordinate
FloorHalf(c) == (c + CoordDen \div 2) \div CoordDen

\* line 181: the peaks the refinement is applied to
Refines(px, py, heatmap_width, heatmap_height) ==
    /\ 1 < px /\ px < heatmap_width - 1
    /\ 1 < py /\ py < heatmap_height - 1

\* lines 182-185: the cells of hm read for a peak at (px, py), as <<row, col>>
NeighbourReads(px, py) ==
    {<<py, px + 1>>, <<py, px - 1>>, <<py + 1, px>>, <<py - 1, px>>}

\* Mutant of Nudge: the difference itself in place of its sign
NudgeByDifference(d) == d * (CoordDen \div 4)

\* line 186: np.sign(d) * .25
Nudge(d) == Sign(d) * (CoordDen \div 4)

\* lines 178-186 for one (n, p)
RefineSlice(hm, coord, heatmap_width, heatmap_height) ==
    LET px == FloorHalf(coord[1])
        py == FloorHalf(coord[2])
    IN  IF Refines(px, py, heatmap_width, heatmap_height)
        THEN <<coord[1] + Nudge(hm[py][px + 1] - hm[py][px - 1]),
               coord[2] + Nudge(hm[py + 1][px] - hm[py - 1][px])>>
        ELSE coord

\* coords after the loop of lines 176-186
RefinedCoords(heatmaps) ==
    LET coords         == MaxPreds(heatmaps).preds
        heatmap_height == Size(heatmaps[0][0])
        heatmap_width  == Size(heatmaps[0][0][0])
    IN  [n \in DOMAIN coords |-> [p \in DOMAIN coords[n] |->
            RefineSlice(heatmaps[n][p], coords[n][p],
                        heatmap_width, heatmap_height)]]

----------------------------------------------------------------------------
(* keypoint_utils.transform_preds: the affine map from heatmap space back  *)
(* to image space.  center is <<cx, cy>>; scale is <<sx, sy>> counted in   *)
(* units of 1 / ScaleDen, so that scale * 200 is the integer itself.  Each *)
(* transformed coordinate is the exact fraction [num, den] of              *)
(*   c + (x - dim / 2) * (scale * 200 / dim).                              *)
ScaleDen == 200

Frac(num, den) == [num |-> num, den |-> den]

TransformAxis(q, c, s, dim) ==
    Frac(c * 2 * CoordDen * dim + (2 * q - dim * CoordDen) * s,
         2 * CoordDen * dim)

transform_preds(coords, center, scale, output_size) ==
    [p \in DOMAIN coords |->
        <<TransformAxis(coords[p][1], center[1], scale[1], output_size[1]),
          TransformAxis(coords[p][2], center[2], scale[2], output_size[2])>>]

----------------------------------------------------------------------------
(* Python objects and call outcomes.  An argument is a value of some type  *)
(* with a number of dimensions; data is its content when it is 4-D.        *)

NdArray(ndim, data) == [type |-> "ndarray", ndim |-> ndim, data |-> data]

\* Tensor.numpy(): the array of a tensor, an AttributeError for any object
\* that has no such method
Numpy(obj) == IF obj.type = "Tensor"
              THEN [raised |-> "none", value |-> NdArray(obj.ndim, obj.data)]
              ELSE [raised |-> "AttributeError"]

\* A call that raised: nothing is returned and `steps` tells how far it got.
Raised(exc, steps) == [raised |-> exc, steps |-> steps]

\* Mutant of get_max_preds: without the assertion of line 133 an array of
\* fewer or more dimensions fails later, at heatmaps.shape[3] or in a reshape
get_max_preds_unasserted(heatmaps) ==
    IF heatmaps.type # "ndarray" THEN Raised("AssertionError", << >>)
    ELSE IF heatmaps.ndim < 4 THEN Raised("IndexError", <<"get_max_preds">>)
    ELSE IF heatmaps.ndim > 4 THEN Raised("ValueError", <<"get_max_preds">>)
    ELSE LET got == MaxPreds(heatmaps.data)
         IN  [raised  |-> "none", steps |-> <<"get_max_preds">>,
              preds   |-> got.preds, maxvals |-> got.maxvals]

\* lines 131-155
get_max_preds(heatmaps) ==
    IF heatmaps.type # "ndarray" THEN Raised("AssertionError", <<>>)
    ELSE IF heatmaps.ndim # 4 THEN Raised("AssertionError", <<>>)
    ELSE LET got == MaxPreds(heatmaps.data)
         IN  [raised  |-> "none", steps |-> <<"get_max_preds">>,
              preds   |-> got.preds, maxvals |-> got.maxvals]

\* lines 171-194
get_final_preds(heatmaps, center, scale) ==
    LET got == get_max_preds(heatmaps)
    IN  IF got.raised # "none" THEN got
        ELSE LET hm             == heatmaps.data
                 heatmap_height == Size(hm[0][0])
                 heatmap_width  == Size(hm[0][0][0])
                 coords         == RefinedCoords(hm)
             IN  [raised  |-> "none",
                  steps   |-> <<"get_max_preds", "refine", "transform_preds">>,
                  coords  |-> coords,
                  preds   |-> [i \in DOMAIN coords |->
                                 transform_preds(coords[i], center[i], scale[i],
                                     <<heatmap_width, heatmap_height>>)],
                  maxvals |-> got.maxvals]

\* np.mean(maxvals, axis=1): for each image the exact fraction sum / num_joints
RECURSIVE SumTo(_, _)
SumTo(f, k) == IF k < 0 THEN 0 ELSE f[k][1] + SumTo(f, k - 1)

\* Mutant of MeanAxis1: np.sum in place of np.mean
SumAxis1(maxvals) ==
    [n \in DOMAIN maxvals |->
        <<Frac(SumTo(maxvals[n], Size(maxvals[n]) - 1), 1)>>]

MeanAxis1(maxvals) ==
    [n \in DOMAIN maxvals |->
        <<Frac(SumTo(maxvals[n], Size(maxvals[n]) - 1), Size(maxvals[n]))>>]

\* np.concatenate((preds, maxvals), axis=-1)
ConcatLast(preds, maxvals) ==
    [n \in DOMAIN preds |-> [p \in DOMAIN preds[n] |->
        preds[n][p] \o maxvals[n][p]]]

\* HRNetPostProcess.__call__, lines 197-203
post_process(output, center, scale) ==
    LET arr == Numpy(output)
    IN  IF arr.raised # "none" THEN Raised(arr.raised, <<>>)
        ELSE LET got == get_final_preds(arr.value, center, scale)
             IN  IF got.raised # "none" THEN got
                 ELSE [raised  |-> "none",
                       steps   |-> got.steps \o <<"concatenate", "mean">>,
                       coords  |-> got.coords,
                       outputs |-> << <<ConcatLast(got.preds, got.maxvals),
                                        MeanAxis1(got.maxvals)>> >>]

----------------------------------------------------------------------------
(* TopDownHRNet.flip_back, lines 106-117 *)

\* Mutant of ReverseWidth: the width axis is left as it is
KeepWidth(a) == a

\* a[:, :, :, ::-1]
ReverseWidth(a) ==
    [n \in DOMAIN a |-> [p \in DOMAIN a[n] |-> [y \in DOMAIN a[n][p] |->
        [x \in DOMAIN a[n][p][y] |->
            a[n][p][y][Size(a[n][p][y]) - 1 - x]]]]]

\* lines 113-115 for one pair
SwapChannels(a, pair) ==
    [n \in DOMAIN a |-> [p \in DOMAIN a[n] |->
        IF p = pair[1] THEN a[n][pair[2]]
        ELSE IF p = pair[2] THEN a[n][pair[1]]
        ELSE a[n][p]]]

\* the loop of lines 112-115: the pairs are swapped one after the other
RECURSIVE SwapAll(_, _, _)
SwapAll(a, matched_parts, k) ==
    IF k > Len(matched_parts) THEN a
    ELSE SwapAll(SwapChannels(a, matched_parts[k]), matched_parts, k + 1)

\* The value returned is a reversed view of the argument's buffer, so the
\* channel swaps written through it also reorder the argument: `buffer` is
\* the argument's content when the call returns.
flip_back(output_flipped, matched_parts) ==
    IF output_flipped.ndim # 4
    THEN [raised |-> "AssertionError", steps |-> <<>>,
          buffer |-> output_flipped.data]
    ELSE LET view == SwapAll(ReverseWidth(output_flipped.data), matched_parts, 1)
         IN  [raised |-> "none", steps |-> <<"reverse", "swap">>,
              value  |-> NdArray(4, view),
              buffer |-> ReverseWidth(view)]

----------------------------------------------------------------------------
(* State *)

VARIABLES
    arg,       \* the array object passed to the routine, as it is at the call
    pc,        \* "start", or the routine that has been called
    ret,       \* what the call returned or raised
    net,       \* the TopDownHRNet instance: training, deploy, flip, ...
    network,   \* the heatmap the backbone and final_conv give for an image
    inputs,    \* self.inputs: image, center, scale, im_shape
    supplied,  \* the image the caller put into self.inputs
    calls,     \* the number of _forward calls made on these inputs
    last       \* what the latest _forward call did

vars == <<arg, pc, ret, net, network, inputs, supplied, calls, last>>

None == "None"

----------------------------------------------------------------------------
(* The explored heatmaps have batch size MaxB, MaxJ joints, MaxH rows and  *)
(* MaxW columns.  A heatmap is constant, or zero but for one marked cell   *)
(* and possibly a second one in the same row or column of the same slice.  *)
(* The scores are the whole numbers -1, 0, 1 and 2: with the zero          *)
(* background they give every order of a peak and a second response and    *)
(* every sign the mask of line 150 and the differences of lines 183-184    *)
(* distinguish.                                                            *)

Levels == {s * ScoreDen : s \in {-1, 0, 1, 2}}

Shape == <<MaxB, MaxJ, MaxH, MaxW>>

Const(shape, v) ==
    [n \in 0..(shape[1] - 1) |-> [p \in 0..(shape[2] - 1) |->
        [y \in 0..(shape[3] - 1) |-> [x \in 0..(shape[4] - 1) |-> v]]]]

Marked(shape, n1, p1, c1, v1, c2, v2) ==
    [n \in 0..(shape[1] - 1) |-> [p \in 0..(shape[2] - 1) |->
        [y \in 0..(shape[3] - 1) |-> [x \in 0..(shape[4] - 1) |->
            IF <<n, p>> # <<n1, p1>> THEN 0
            ELSE IF <<y, x>> = c1 THEN v1
            ELSE IF <<y, x>> = c2 THEN v2
            ELSE 0]]]]

\* objects get_max_preds and flip_back reject: no array, or not 4-D
BadObjects ==
    {[type |-> "list", ndim |-> k, data |-> << >>] : k \in 1..5}
    \cup {NdArray(k, << >>) : k \in {1, 2, 3, 5}}

\* paddle.to_tensor(array)
Tensor(a) == [type |-> "Tensor", ndim |-> a.ndim, data |-> a.data]

\* flip-pairing tables: lists of disjoint left/right joint pairs
Pairs(J) == {<<a, b>> : a \in 0..(J - 1), b \in 0..(J - 1)} \ {<<a, a>> : a \in 0..(J - 1)}

PairTables(J) ==
    {<< >>} \cup {<<pr>> : pr \in {q \in Pairs(J) : q[1] < q[2]}}
    \cup {t \in {<<pr, qr>> : pr \in Pairs(J), qr \in Pairs(J)} :
                {t[1][1], t[1][2]} \cap {t[2][1], t[2][2]} = {}}

\* per-image centers and scales handed to the post-processing
Centers(B) == {[i \in 0..(B - 1) |-> <<10 + i, 20>>]}
Scales(B)  == {[i \in 0..(B - 1) |-> <<ScaleDen, 2 * ScaleDen>>]}

Batch(a) == IF a.ndim = 4 /\ a.type # "list" THEN Size(a.data) ELSE 1

----------------------------------------------------------------------------
(* The array routines, each called once on an explored object *)

NetIdle    == [training |-> FALSE, deploy |-> FALSE, flip |-> FALSE,
               shift_heatmap |-> FALSE, flip_perm |-> << >>]
InputsIdle == [image |-> None, center |-> None, scale |-> None, im_shape |-> None]
LastIdle   == [steps |-> << >>]

InitArrays ==
    /\ \/ \E v \in Levels : arg = NdArray(4, Const(Shape, v))
       \/ \E n1 \in 0..(MaxB - 1), p1 \in 0..(MaxJ - 1),
             c1 \in (0..(MaxH - 1)) \X (0..(MaxW - 1)),
             c2 \in (0..(MaxH - 1)) \X (0..(MaxW - 1)),
             v1 \in Levels \ {0}, v2 \in Levels :
               /\ c2[1] = c1[1] \/ c2[2] = c1[2]
               /\ arg = NdArray(4, Marked(Shape, n1, p1, c1, v1, c2, v2))
       \/ arg \in BadObjects
    /\ pc = "start"
    /\ ret = None
    /\ net = NetIdle
    /\ network = << >>
    /\ inputs = InputsIdle
    /\ supplied = None
    /\ calls = 0
    /\ last = LastIdle

CallGetMaxPreds ==
    /\ pc = "start"
    /\ pc' = "get_max_preds"
    /\ ret' = [out |-> get_max_preds(arg), args |-> << >>]
    /\ UNCHANGED <<arg, net, network, inputs, supplied, calls, last>>

CallGetFinalPreds ==
    /\ pc = "start"
    /\ \E center \in Centers(Batch(arg)), scale \in Scales(Batch(arg)) :
          ret' = [out |-> get_final_preds(arg, center, scale),
                  args |-> <<center, scale>>]
    /\ pc' = "get_final_preds"
    /\ UNCHANGED <<arg, net, network, inputs, supplied, calls, last>>

CallPostProcess ==
    /\ pc = "start"
    /\ arg.type = "ndarray"
    /\ \E center \in Centers(Batch(arg)), scale \in Scales(Batch(arg)) :
          ret' = [out |-> post_process(Tensor(arg), center, scale),
                  args |-> <<center, scale>>]
    /\ pc' = "post_process"
    /\ UNCHANGED <<arg, net, network, inputs, supplied, calls, last>>

CallFlipBack ==
    /\ pc = "start"
    /\ arg.type = "ndarray"
    /\ \E matched_parts \in PairTables(IF arg.ndim = 4 THEN Size(arg.data[0]) ELSE 0) :
          ret' = [out |-> flip_back(arg, matched_parts),
                  args |-> <<matched_parts>>]
    /\ pc' = "flip_back"
    /\ UNCHANGED <<arg, net, network, inputs, supplied, calls, last>>

NextArrays ==
    \/ CallGetMaxPreds
    \/ CallGetFinalPreds
    \/ CallPostProcess
    \/ CallFlipBack

SpecArrays == InitArrays /\ [][NextArrays]_vars

----------------------------------------------------------------------------
(* Vocabulary of the properties *)

\* the object under call is a 4-D numpy array
Valid == arg.type = "ndarray" /\ arg.ndim = 4

Returned == pc # "start" /\ ret.out.raised = "none"

CellsOf(slice) == {<<y, x>> : y \in DOMAIN slice, x \in DOMAIN slice[0]}

\* v is the largest score of the slice
IsMaxOf(slice, v) ==
    /\ \A c \in CellsOf(slice) : slice[c[1]][c[2]] <= v
    /\ \E c \in CellsOf(slice) : slice[c[1]][c[2]] = v

\* d comes before c in row-major order
Before(d, c) == d[1] < c[1] \/ (d[1] = c[1] /\ d[2] < c[2])

\* c is the first cell, in row-major order, holding v
IsFirstWith(slice, c, v) ==
    /\ slice[c[1]][c[2]] = v
    /\ \A d \in CellsOf(slice) : Before(d, c) => slice[d[1]][d[2]] # v

\* C1: for a 4-D heatmap array, get_max_preds returns for every (n, p) the
\* maximum score of slice heatmaps[n][p] and, when that maximum is > 0, the
\* coordinate x = idx mod width, y = floor(idx / width) of the first
\* row-major index idx attaining it, so that 0 <= x < width, 0 <= y < height
\* and heatmaps[n][p][y][x] is the maximum; equal slices decode alike
\* whatever the other slices hold.
C1_PeakExtraction ==
    (pc = "get_max_preds" /\ Valid) =>
        LET hm    == arg.data
            out   == ret.out
            width == Size(hm[0][0][0])
        IN  /\ out.raised = "none"
            /\ \A n \in DOMAIN hm : \A p \in DOMAIN hm[n] :
                 LET slice == hm[n][p]
                     mv    == out.maxvals[n][p][1]
                     xy    == out.preds[n][p]
                 IN  /\ IsMaxOf(slice, mv)
                     /\ mv > 0 =>
                          \E c \in CellsOf(slice) :
                             LET idx == c[1] * width + c[2]
                             IN  /\ IsFirstWith(slice, c, mv)
                                 /\ xy[1] = (idx % width) * CoordDen
                                 /\ xy[2] = (idx \div width) * CoordDen
                                 /\ xy = <<c[2] * CoordDen, c[1] * CoordDen>>
                     /\ \A m \in DOMAIN hm : \A q \in DOMAIN hm[m] :
                          hm[m][q] = slice =>
                             /\ out.preds[m][q] = xy
                             /\ out.maxvals[m][q] = out.maxvals[n][p]

\* a positive maximum attained twice, first at a cell off the first row and column
C1_Witness ==
    /\ pc = "get_max_preds" /\ Valid /\ Returned
    /\ \E n \in DOMAIN arg.data : \E p \in DOMAIN arg.data[n] :
          LET slice == arg.data[n][p]
              mv    == ret.out.maxvals[n][p][1]
          IN  /\ mv > 0
              /\ ret.out.preds[n][p][1] > 0 /\ ret.out.preds[n][p][2] > 0
              /\ Cardinality({c \in CellsOf(slice) : slice[c[1]][c[2]] = mv}) = 2

\* C2: a joint whose maximum score is <= 0 gets the coordinate (0, 0) from
\* get_max_preds, with that maximum as its confidence, and get_final_preds
\* leaves its pre-transform coordinate at (0, 0); so does every joint of an
\* all-zero heatmap, with confidence 0.
C2_NoDetection ==
    (pc \in {"get_max_preds", "get_final_preds"} /\ Valid) =>
        LET hm  == arg.data
            out == ret.out
        IN  /\ out.raised = "none"
            /\ \A n \in DOMAIN hm : \A p \in DOMAIN hm[n] :
                 \A mv \in Levels :
                    (IsMaxOf(hm[n][p], mv) /\ mv <= 0) =>
                        /\ out.maxvals[n][p] = <<mv>>
                        /\ pc = "get_max_preds" => out.preds[n][p] = <<0, 0>>
                        /\ pc = "get_final_preds" => out.coords[n][p] = <<0, 0>>

\* get_final_preds on a slice whose maximum is <= 0 and first attained away
\* from cell (0, 0), and on a slice of negative scores only
C2_Witness ==
    /\ pc = "get_final_preds" /\ Valid /\ Returned
    /\ \E n \in DOMAIN arg.data : \E p \in DOMAIN arg.data[n] :
          /\ ret.out.maxvals[n][p][1] <= 0
          /\ arg.data[n][p][0][0] < ret.out.maxvals[n][p][1]
          /\ ret.out.coords[n][p] = <<0, 0>>

\* the integer peak of joint (n, p): get_max_preds' coordinate, in pixels
PeakOf(n, p) ==
    LET xy == MaxPreds(arg.data).preds[n][p]
    IN  <<xy[1] \div CoordDen, xy[2] \div CoordDen>>

\* the coordinate the quarter offset moves a peak at (px, py) of slice hm to
QuarterOffset(hm, px, py) ==
    <<px * CoordDen + Sign(hm[py][px + 1] - hm[py][px - 1]) * (CoordDen \div 4),
      py * CoordDen + Sign(hm[py + 1][px] - hm[py - 1][px]) * (CoordDen \div 4)>>

\* C3: in get_final_preds every peak (px, py) off the 1-pixel border,
\* 1 <= px <= width-2 and 1 <= py <= height-2, is moved to
\* (px + 0.25*sign(hm[py][px+1] - hm[py][px-1]),
\*  py + 0.25*sign(hm[py+1][px] - hm[py-1][px])), and only the peaks on the
\* border stay at their integer location.
C3_RefinesOffBorder ==
    (pc = "get_final_preds" /\ Valid) =>
        LET hm     == arg.data
            height == Size(hm[0][0])
            width  == Size(hm[0][0][0])
        IN  \A n \in DOMAIN hm : \A p \in DOMAIN hm[n] :
              LET px == PeakOf(n, p)[1]
                  py == PeakOf(n, p)[2]
              IN  IF 1 <= px /\ px <= width - 2 /\ 1 <= py /\ py <= height - 2
                  THEN ret.out.coords[n][p] = QuarterOffset(hm[n][p], px, py)
                  ELSE ret.out.coords[n][p] = <<px * CoordDen, py * CoordDen>>

\* C4: the pre-transform coordinate of get_final_preds differs from the peak
\* of get_max_preds by -0.25, 0 or +0.25 in each axis; the neighbours read
\* for a refined peak lie inside the heatmap; and a slice that is a unit
\* impulse at a pixel off the border decodes to within 0.25 of that pixel
\* in each axis, with confidence 1.
C4_QuarterStep ==
    (pc = "get_final_preds" /\ Valid) =>
        LET hm     == arg.data
            height == Size(hm[0][0])
            width  == Size(hm[0][0][0])
            peaks  == MaxPreds(hm).preds
            coords == ret.out.coords
        IN  \A n \in DOMAIN hm : \A p \in DOMAIN hm[n] :
              /\ coords[n][p][1] - peaks[n][p][1] \in {0 - CoordDen \div 4, 0, CoordDen \div 4}
              /\ coords[n][p][2] - peaks[n][p][2] \in {0 - CoordDen \div 4, 0, CoordDen \div 4}
              /\ Refines(PeakOf(n, p)[1], PeakOf(n, p)[2], width, height) =>
                    NeighbourReads(PeakOf(n, p)[1], PeakOf(n, p)[2])
                        \subseteq CellsOf(hm[n][p])
              /\ \A c \in CellsOf(hm[n][p]) :
                    (/\ 1 <= c[1] /\ c[1] <= height - 2
                     /\ 1 <= c[2] /\ c[2] <= width - 2
                     /\ \A d \in CellsOf(hm[n][p]) :
                           hm[n][p][d[1]][d[2]] = IF d = c THEN ScoreDen ELSE 0) =>
                        /\ coords[n][p][1] - c[2] * CoordDen \in (0 - CoordDen \div 4)..(CoordDen \div 4)
                        /\ coords[n][p][2] - c[1] * CoordDen \in (0 - CoordDen \div 4)..(CoordDen \div 4)
                        /\ ret.out.maxvals[n][p] = <<ScoreDen>>

\* get_final_preds has moved a peak the refinement applies to by a quarter
\* pixel
C4_Witness ==
    /\ pc = "get_final_preds" /\ Valid /\ Returned
    /\ \E n \in DOMAIN arg.data : \E p \in DOMAIN arg.data[n] :
          /\ ret.out.coords[n][p] # MaxPreds(arg.data).preds[n][p]
          /\ Refines(PeakOf(n, p)[1], PeakOf(n, p)[2],
                     Size(arg.data[0][0][0]), Size(arg.data[0][0]))

\* the joints a flip-pairing table pairs, in both directions
PairedJoints(matched_parts) ==
    {<<matched_parts[k][1], matched_parts[k][2]>> : k \in DOMAIN matched_parts}
    \cup {<<matched_parts[k][2], matched_parts[k][1]>> : k \in DOMAIN matched_parts}

\* the maximum of the slice is positive and the first row holding it holds
\* it once
PeakAloneInRow(slice) ==
    \E c \in CellsOf(slice) :
        /\ slice[c[1]][c[2]] > 0
        /\ IsMaxOf(slice, slice[c[1]][c[2]])
        /\ IsFirstWith(slice, c, slice[c[1]][c[2]])
        /\ \A x \in DOMAIN slice[c[1]] : x # c[2] => slice[c[1]][x] # slice[c[1]][c[2]]

\* The statement of C5 as claimed: decoding the flipped-back heatmap gives,
\* for every joint j paired with j', the mirror (W-1-x, y) of the coordinate
\* (x, y) decoded for joint j' of the original, with the same confidence.
C5_MirroredAlways ==
    (pc = "flip_back" /\ Returned) =>
        LET h     == arg.data
            f     == ret.out.value.data
            width == Size(h[0][0][0])
            dh    == MaxPreds(h)
            df    == MaxPreds(f)
        IN  \A jj \in PairedJoints(ret.args[1]) : \A n \in DOMAIN h :
              /\ df.preds[n][jj[1]] = <<(width - 1) * CoordDen - dh.preds[n][jj[2]][1],
                                        dh.preds[n][jj[2]][2]>>
              /\ df.maxvals[n][jj[1]] = dh.maxvals[n][jj[2]]

\* C5 (amended): for every joint j paired with j' the decoded confidence of
\* joint j of the flipped-back heatmap is that of joint j' of the original,
\* and its coordinate is the mirror (W-1-x, y) of the original's (x, y)
\* whenever the maximum of the original slice is > 0 and occurs once in the
\* first row that holds it.
C5_MirroredWhenPeakAlone ==
    (pc = "flip_back" /\ Returned) =>
        LET h     == arg.data
            f     == ret.out.value.data
            width == Size(h[0][0][0])
            dh    == MaxPreds(h)
            df    == MaxPreds(f)
        IN  \A jj \in PairedJoints(ret.args[1]) : \A n \in DOMAIN h :
              /\ df.maxvals[n][jj[1]] = dh.maxvals[n][jj[2]]
              /\ PeakAloneInRow(h[n][jj[2]]) =>
                    df.preds[n][jj[1]] =
                        <<(width - 1) * CoordDen - dh.preds[n][jj[2]][1],
                          dh.preds[n][jj[2]][2]>>

\* flip_back has swapped a pair of joints one of which has its lone peak off
\* the middle column, next to a lower positive score
C5_Witness ==
    /\ pc = "flip_back" /\ Returned
    /\ \E jj \in PairedJoints(ret.args[1]) : \E n \in DOMAIN arg.data :
          /\ PeakAloneInRow(arg.data[n][jj[2]])
          /\ MaxPreds(ret.out.value.data).preds[n][jj[1]]
                # MaxPreds(arg.data).preds[n][jj[2]]
          /\ \E c \in CellsOf(arg.data[n][jj[2]]) :
                /\ arg.data[n][jj[2]][c[1]][c[2]] > 0
                /\ arg.data[n][jj[2]][c[1]][c[2]] < MaxPreds(arg.data).maxvals[n][jj[2]][1]

\* the sum of the per-joint maxima of image n
RECURSIVE SumOfMaxima(_, _, _)
SumOfMaxima(hm, n, p) ==
    IF p < 0 THEN 0
    ELSE (CHOOSE v \in Levels : IsMaxOf(hm[n][p], v)) + SumOfMaxima(hm, n, p - 1)

\* rows is the (J x 3) array of image n: (x, y, confidence) for each joint
IsRowsOf(rows, n) ==
    LET hm    == arg.data
        final == get_final_preds(arg, ret.args[1], ret.args[2])
    IN  /\ DOMAIN rows = DOMAIN hm[n]
        /\ \A p \in DOMAIN hm[n] :
              /\ Len(rows[p]) = 3
              /\ <<rows[p][1], rows[p][2]>> = final.preds[n][p]
              /\ IsMaxOf(hm[n][p], rows[p][3])

\* mean is the mean over the joints of image n of the per-joint maximum
IsMeanOf(mean, n) ==
    /\ mean.den > 0
    /\ mean.num * Size(arg.data[n])
          = mean.den * SumOfMaxima(arg.data, n, Size(arg.data[n]) - 1)

\* The statement of C6 as claimed: __call__ returns one result per image, in
\* batch order, each the (J x 3) array of that image with its mean confidence.
C6_OneResultPerImage ==
    (pc = "post_process" /\ Returned) =>
        LET outputs == ret.out.outputs
        IN  /\ Len(outputs) = Size(arg.data)
            /\ \A i \in 1..Len(outputs) :
                  /\ Len(outputs[i]) = 2
                  /\ IsRowsOf(outputs[i][1], i - 1)
                  /\ IsMeanOf(outputs[i][2], i - 1)

\* C6 (amended): __call__ returns a sequence of exactly one entry whatever
\* the batch size; the entry is a pair of batched arrays, a (B x J x 3) array
\* whose row [n][p] is (x, y, confidence) of joint p of image n and a (B x 1)
\* array whose entry [n] is the mean over the J joints of image n of the
\* per-joint maximum heatmap score, both in batch order.
C6_OneBatchedResult ==
    (pc = "post_process" /\ Returned) =>
        LET outputs == ret.out.outputs
        IN  /\ Len(outputs) = 1
            /\ Len(outputs[1]) = 2
            /\ DOMAIN outputs[1][1] = DOMAIN arg.data
            /\ DOMAIN outputs[1][2] = DOMAIN arg.data
            /\ \A n \in DOMAIN arg.data :
                  /\ IsRowsOf(outputs[1][1][n], n)
                  /\ Len(outputs[1][2][n]) = 1
                  /\ IsMeanOf(outputs[1][2][n][1], n)

\* __call__ has returned for a batch of several images with several joints
\* whose mean confidences differ
C6_Witness ==
    /\ pc = "post_process" /\ Returned
    /\ Size(arg.data) > 1 /\ Size(arg.data[0]) > 1
    /\ \E n \in DOMAIN arg.data :
          /\ ret.out.outputs[1][2][n][1].num # ret.out.outputs[1][2][0][1].num
          /\ ret.out.outputs[1][2][n][1].num # 0

\* the object under call is no numpy array, or is not 4-dimensional
Rejected == arg.type # "ndarray" \/ arg.ndim # 4

\* C7: get_max_preds raises an assertion error and returns no predictions
\* when its input is no numpy array or is not 4-dimensional; get_final_preds
\* and __call__ then fail before any refinement or transform, and flip_back
\* asserts four dimensions before it reorders anything.
C7_AssertsFourDimensions ==
    /\ (pc = "get_max_preds" /\ Rejected) =>
          /\ ret.out.raised = "AssertionError"
          /\ ret.out.steps = << >>
          /\ DOMAIN ret.out = {"raised", "steps"}
    /\ (pc = "get_final_preds" /\ Rejected) =>
          /\ ret.out.raised = "AssertionError"
          /\ ret.out.steps = << >>
          /\ DOMAIN ret.out = {"raised", "steps"}
    /\ (pc = "post_process" /\ arg.ndim # 4) =>
          /\ ret.out.raised = "AssertionError"
          /\ ret.out.steps = << >>
          /\ DOMAIN ret.out = {"raised", "steps"}
    /\ (pc = "flip_back" /\ arg.ndim # 4) =>
          /\ ret.out.raised = "AssertionError"
          /\ ret.out.steps = << >>
          /\ ret.out.buffer = arg.data
          /\ "value" \notin DOMAIN ret.out
    /\ (pc \in {"get_max_preds", "get_final_preds", "post_process", "flip_back"}
            /\ Valid) => ret.out.raised = "none"

\* __call__ has failed on the tensor of a 3-dimensional array
C7_Witness ==
    /\ pc = "post_process"
    /\ arg.ndim = 3
    /\ ret.out.raised = "AssertionError"

----------------------------------------------------------------------------
(* TopDownHRNet._forward, lines 69-96.  The network (self.backbone and    *)
(* self.final_conv) is not part of this file: it is some function from    *)
(* images to heatmaps, `network`.  Its heatmaps hold whole scores, so the  *)
(* half of line 88 is exact in steps of 1 / ScoreDen.                      *)

MaxCalls == 2

\* Mutant of FlipImage: the image is stored as it was
FlipImageNone(image) == image

\* line 79: Tensor.flip([3])
FlipImage(image) == ReverseWidth(image)

\* Mutant of ShiftHeatmap: the shift towards the first column
ShiftHeatmapLeft(a) ==
    [n \in DOMAIN a |-> [p \in DOMAIN a[n] |-> [y \in DOMAIN a[n][p] |->
        [x \in DOMAIN a[n][p][y] |->
            IF x + 1 \in DOMAIN a[n][p][y] THEN a[n][p][y][x + 1]
            ELSE a[n][p][y][x]]]]]

\* lines 86-87: output_flipped[:, :, :, 1:] = output_flipped.clone()[:, :, :, 0:-1]
ShiftHeatmap(a) ==
    [n \in DOMAIN a |-> [p \in DOMAIN a[n] |-> [y \in DOMAIN a[n][p] |->
        [x \in DOMAIN a[n][p][y] |->
            IF x >= 1 THEN a[n][p][y][x - 1] ELSE a[n][p][y][x]]]]]

\* Mutant of Average: the sum without the factor 0.5
AverageSum(a, b) ==
    [n \in DOMAIN a |-> [p \in DOMAIN a[n] |-> [y \in DOMAIN a[n][p] |->
        [x \in DOMAIN a[n][p][y] |->
            a[n][p][y][x] + b[n][p][y][x]]]]]

\* line 88: (hrnet_outputs + output_flipped) * 0.5
Average(a, b) ==
    [n \in DOMAIN a |-> [p \in DOMAIN a[n] |-> [y \in DOMAIN a[n][p] |->
        [x \in DOMAIN a[n][p][y] |->
            (a[n][p][y][x] + b[n][p][y][x]) \div 2]]]]

\* np.round(v / 2.) of a whole number: halves go to the even neighbour
RoundHalf(v) ==
    IF v % 2 = 0 THEN v \div 2
    ELSE IF ((v - 1) \div 2) % 2 = 0 THEN (v - 1) \div 2 ELSE (v + 1) \div 2

\* lines 89-94: the center and scale handed to the post-processing; a scale
\* counts units of 1 / ScaleDen, so imshape / 200. is imshape itself
CenterOf(inp) ==
    IF "center" \in DOMAIN inp THEN inp["center"]
    ELSE [i \in DOMAIN inp["im_shape"] |->
            <<RoundHalf(inp["im_shape"][i][2]), RoundHalf(inp["im_shape"][i][1])>>]

ScaleOf(inp) ==
    IF "scale" \in DOMAIN inp THEN inp["scale"]
    ELSE [i \in DOMAIN inp["im_shape"] |->
            <<inp["im_shape"][i][2], inp["im_shape"][i][1]>>]

\* Lines 70-88 of one call: `inputs` is self.inputs afterwards, `seen` the
\* images the network was run on, `passes` the heatmaps it gave, `corrected`
\* the result of flip_back, `shifted` the heatmap averaged with the first
\* pass, `handed` the heatmap that goes to the post-processing, `steps` the
\* operations in the order they ran.
forward(self, inp, hrnet) ==
    LET o1 == hrnet[inp["image"]]
    IN  IF self.training
        THEN [inputs |-> inp, seen |-> <<inp["image"]>>,
              steps |-> <<"network", "loss">>,
              kind |-> "loss", passes |-> <<o1>>]
        ELSE IF self.deploy
        THEN [inputs |-> inp, seen |-> <<inp["image"]>>,
              steps |-> <<"network">>,
              kind |-> "heatmap", passes |-> <<o1>>]
        ELSE IF self.flip
        THEN LET mirrored  == [inp EXCEPT !["image"] = FlipImage(inp["image"])]
                 o2        == hrnet[mirrored["image"]]
                 corrected == flip_back(NdArray(4, o2), self.flip_perm).value.data
                 shifted   == IF self.shift_heatmap THEN ShiftHeatmap(corrected)
                              ELSE corrected
             IN  [inputs |-> mirrored,
                  seen |-> <<inp["image"], mirrored["image"]>>,
                  steps |-> <<"network", "flip", "network", "flip_back">>
                            \o (IF self.shift_heatmap THEN <<"shift">> ELSE << >>)
                            \o <<"average", "post_process">>,
                  kind |-> "outputs", passes |-> <<o1, o2>>,
                  corrected |-> corrected, shifted |-> shifted,
                  handed |-> Average(o1, shifted)]
        ELSE [inputs |-> inp, seen |-> <<inp["image"]>>,
              steps |-> <<"network", "post_process">>,
              kind |-> "outputs", passes |-> <<o1>>, handed |-> o1]

\* What the call returns (lines 74, 76 and 89-96) once it has done `did`:
\* the loss of the first pass, the raw heatmap, or the post-processed outputs
forward_return(did) ==
    IF did.kind = "loss" THEN [kind |-> "loss", of |-> did.passes[1]]
    ELSE IF did.kind = "heatmap" THEN [kind |-> "heatmap", value |-> did.passes[1]]
    ELSE [kind |-> "outputs",
          out  |-> post_process(Tensor(NdArray(4, did.handed)),
                                CenterOf(did.inputs), ScaleOf(did.inputs))]

----------------------------------------------------------------------------
(* The explored calls of _forward *)

\* a heatmap that is zero but for a unit score at one cell
Impulse(shape, n1, p1, c1) == Marked(shape, n1, p1, c1, ScoreDen, c1, ScoreDen)

\* the heatmaps of the explored networks: zero or one everywhere for the
\* image supplied, zero or a unit impulse for its mirror
OnSupplied == {Const(Shape, 0), Const(Shape, ScoreDen)}

OnMirror ==
    {Const(Shape, 0)}
    \cup {Impulse(Shape, n1, p1, c1) :
            n1 \in 0..(MaxB - 1), p1 \in 0..(MaxJ - 1),
            c1 \in (0..(MaxH - 1)) \X (0..(MaxW - 1))}

\* images of one row: dark, or lit at the first pixel of the first image
ImageShape == <<MaxB, 1, 1, MaxW>>

Images == {Const(ImageShape, 0), Impulse(ImageShape, 0, 0, <<0, 0>>)}

\* self.inputs as the data loader fills it: with center and scale, or with
\* im_shape alone
InputsOf(image) ==
    {[k \in {"image", "center", "scale", "im_shape"} |->
        CASE k = "image"    -> image
          [] k = "center"   -> [i \in 0..(MaxB - 1) |-> <<10 + i, 20>>]
          [] k = "scale"    -> [i \in 0..(MaxB - 1) |-> <<ScaleDen, 2 * ScaleDen>>]
          [] k = "im_shape" -> [i \in 0..(MaxB - 1) |-> <<7, 5 + i>>]],
     [k \in {"image", "im_shape"} |->
        CASE k = "image"    -> image
          [] k = "im_shape" -> [i \in 0..(MaxB - 1) |-> <<7, 5 + i>>]]}

InitForward ==
    /\ arg = None
    /\ pc = "start"
    /\ ret = None
    /\ net \in [training : BOOLEAN, deploy : BOOLEAN, flip : BOOLEAN,
                shift_heatmap : BOOLEAN,
                flip_perm : {<< >>, << <<0, MaxJ - 1>> >>}]
    /\ \E image \in Images :
          /\ inputs \in InputsOf(image)
          /\ \E o1 \in OnSupplied, o2 \in OnMirror :
                network = [i \in {image, FlipImage(image)} |->
                              IF i = image THEN o1 ELSE o2]
    /\ supplied = inputs
    /\ calls = 0
    /\ last = LastIdle

\* self.get_pred() or self.get_loss(): one call of _forward, lines 69-96
Forward ==
    /\ calls < MaxCalls
    /\ \E did \in {forward(net, inputs, network)} :
          /\ inputs' = did.inputs
          /\ last' = did
          /\ ret' = forward_return(did)
    /\ calls' = calls + 1
    /\ pc' = "_forward"
    /\ UNCHANGED <<arg, net, network, supplied>>

NextForward == Forward

SpecForward == InitForward /\ [][NextForward]_vars

----------------------------------------------------------------------------
(* Properties of _forward *)

FlipInference == ~net.training /\ ~net.deploy /\ net.flip

Called == pc = "_forward"

\* b is a with its width axis reversed
IsMirrorOf(b, a) ==
    /\ DOMAIN b = DOMAIN a
    /\ \A n \in DOMAIN a :
          /\ DOMAIN b[n] = DOMAIN a[n]
          /\ \A p \in DOMAIN a[n] :
                /\ DOMAIN b[n][p] = DOMAIN a[n][p]
                /\ \A y \in DOMAIN a[n][p] :
                      /\ DOMAIN b[n][p][y] = DOMAIN a[n][p][y]
                      /\ \A x \in DOMAIN a[n][p][y] :
                            b[n][p][y][x] = a[n][p][y][Size(a[n][p][y]) - 1 - x]

\* the position of a step among the steps of the last call, 0 if it is absent
StepAt(name) ==
    IF \E i \in DOMAIN last.steps : last.steps[i] = name
    THEN CHOOSE i \in DOMAIN last.steps : last.steps[i] = name
    ELSE 0

\* the cells of a 4-D array
Cells4(a) ==
    {<<n, p, y, x>> : n \in DOMAIN a, p \in DOMAIN a[0],
                      y \in DOMAIN a[0][0], x \in DOMAIN a[0][0][0]}

\* C8: the network runs twice, on the image and then on its mirror, iff the
\* model is neither training nor in deploy mode and flip is on, and once
\* otherwise; training returns the loss of the single pass even in deploy
\* mode, deploy mode returns the heatmap of the single pass, and in the flip
\* case the heatmap handed to the post-processing is cell by cell
\* 0.5 * (first pass + flip-corrected heatmap), averaged before the peaks
\* are extracted from it.
C8_FlipPassOnlyInInference ==
    Called =>
        /\ Len(last.passes) = Len(last.seen)
        /\ Len(last.seen) = (IF FlipInference THEN 2 ELSE 1)
        /\ \A i \in DOMAIN last.seen : last.passes[i] = network[last.seen[i]]
        /\ FlipInference => IsMirrorOf(last.seen[2], last.seen[1])
        /\ net.training =>
              /\ ret.kind = "loss"
              /\ ret.of = last.passes[1]
        /\ (~net.training /\ net.deploy) =>
              /\ ret.kind = "heatmap"
              /\ ret.value = last.passes[1]
        /\ FlipInference =>
              /\ ret.kind = "outputs"
              /\ \A c \in Cells4(last.handed) :
                    2 * last.handed[c[1]][c[2]][c[3]][c[4]]
                        = last.passes[1][c[1]][c[2]][c[3]][c[4]]
                          + last.shifted[c[1]][c[2]][c[3]][c[4]]
              /\ 0 < StepAt("average")
              /\ StepAt("average") < StepAt("post_process")
              /\ \A n \in DOMAIN last.handed : \A p \in DOMAIN last.handed[n] :
                    /\ IsMaxOf(last.handed[n][p], ret.out.outputs[1][1][n][p][3])
                    /\ ret.out.outputs[1][1][n][p][3]
                          = MaxPreds(last.handed).maxvals[n][p][1]

\* a flip call has averaged a first pass of ones with a mirrored pass that
\* has a single response
C8_Witness ==
    /\ Called /\ FlipInference
    /\ Len(last.seen) = 2
    /\ \E c \in Cells4(last.handed) : \E d \in Cells4(last.handed) :
          /\ last.passes[1][c[1]][c[2]][c[3]][c[4]] = ScoreDen
          /\ last.shifted[c[1]][c[2]][c[3]][c[4]] = 0
          /\ last.handed[c[1]][c[2]][c[3]][c[4]] = ScoreDen \div 2
          /\ last.handed[d[1]][d[2]][d[3]][d[4]] = ScoreDen

\* the joint whose channel of the mirrored pass flip_back puts at channel p
SourceJoint(p) ==
    IF \E jj \in PairedJoints(net.flip_perm) : jj[1] = p
    THEN (CHOOSE jj \in PairedJoints(net.flip_perm) : jj[1] = p)[2]
    ELSE p

\* C9: with shift_heatmap, column x of the shifted heatmap is column x-1 of
\* the flip-corrected heatmap for 1 <= x <= W-1 and column 0 keeps its value,
\* in the same row, joint and batch item; without shift_heatmap the
\* flip-corrected heatmap is averaged as it is.
C9_ShiftOneColumn ==
    (Called /\ FlipInference) =>
        /\ \A c \in Cells4(last.corrected) :
              last.corrected[c[1]][c[2]][c[3]][c[4]]
                  = last.passes[2][c[1]][SourceJoint(c[2])][c[3]]
                        [Size(last.passes[2][0][0][0]) - 1 - c[4]]
        /\ Cells4(last.shifted) = Cells4(last.corrected)
        /\ net.shift_heatmap =>
              \A c \in Cells4(last.corrected) :
                  /\ c[4] >= 1 =>
                        last.shifted[c[1]][c[2]][c[3]][c[4]]
                            = last.corrected[c[1]][c[2]][c[3]][c[4] - 1]
                  /\ c[4] = 0 =>
                        /\ last.shifted[c[1]][c[2]][c[3]][0]
                              = last.corrected[c[1]][c[2]][c[3]][0]
                        /\ last.shifted[c[1]][c[2]][c[3]][1]
                              = last.shifted[c[1]][c[2]][c[3]][0]
        /\ ~net.shift_heatmap => last.shifted = last.corrected
        /\ \A c \in Cells4(last.handed) :
              2 * last.handed[c[1]][c[2]][c[3]][c[4]]
                  = last.passes[1][c[1]][c[2]][c[3]][c[4]]
                    + last.shifted[c[1]][c[2]][c[3]][c[4]]

\* a flip call with shift_heatmap has moved a response of the flip-corrected
\* heatmap one column on
C9_Witness ==
    /\ Called /\ FlipInference /\ net.shift_heatmap
    /\ \E c \in Cells4(last.corrected) :
          /\ c[4] >= 1
          /\ last.corrected[c[1]][c[2]][c[3]][c[4] - 1] > 0
          /\ last.corrected[c[1]][c[2]][c[3]][c[4]] = 0
          /\ last.shifted[c[1]][c[2]][c[3]][c[4]] > 0

\* the entries of self.inputs other than the image are those supplied
OthersKept ==
    /\ DOMAIN inputs = DOMAIN supplied
    /\ \A k \in DOMAIN supplied \ {"image"} : inputs[k] = supplied[k]

\* The statement of C10 as claimed: after k flip calls the stored image is
\* the supplied one iff k is even.
C10_StoredIsSuppliedIffEven ==
    /\ FlipInference => (inputs["image"] = supplied["image"] <=> calls % 2 = 0)
    /\ (Called /\ FlipInference) => IsMirrorOf(inputs["image"], last.seen[1])
    /\ ~FlipInference => inputs["image"] = supplied["image"]
    /\ OthersKept

\* C10 (amended): a flip call stores the mirror of the image it found, so
\* after k such calls the stored image is the supplied one when k is even
\* and its mirror when k is odd (which is the supplied image again exactly
\* when that image is its own mirror), every second call running its first
\* pass on the mirror; in the other modes the image is kept, and in every
\* mode the center, scale and im_shape entries are kept.
C10_StoredIsMirroredPerCall ==
    /\ (FlipInference /\ calls % 2 = 0) => inputs["image"] = supplied["image"]
    /\ (FlipInference /\ calls % 2 = 1) =>
          IsMirrorOf(inputs["image"], supplied["image"])
    /\ (Called /\ FlipInference) =>
          /\ IsMirrorOf(inputs["image"], last.seen[1])
          /\ calls % 2 = 0 => IsMirrorOf(last.seen[1], supplied["image"])
    /\ ~FlipInference => inputs["image"] = supplied["image"]
    /\ OthersKept

\* two flip calls on an image that differs from its mirror: the supplied
\* image is stored again, and the second call ran its first pass on the
\* mirror
C10_Witness ==
    /\ Called /\ FlipInference
    /\ calls = 2
    /\ inputs["image"] = supplied["image"]
    /\ last.seen[1] # supplied["image"]
    /\ "center" \in DOMAIN inputs

====
